---- MODULE Spec2Model ----
(***************************************************************************)
(* A model of src/src/lambdas/api/classify_documents.py: the response      *)
(* interpreter (_parse_classification_response, _fallback_parsing), the    *)
(* prompt builder, the content adapter (_prepare_gemini_content) and the   *)
(* Lambda handlers that drive them over a batch of documents.              *)
(*                                                                         *)
(* Texts are TLA+ strings, read character by character with SubSeq; the    *)
(* modelled alphabet is the printable ASCII letters, digits, punctuation,  *)
(* the space and the newline.                                              *)
(***************************************************************************)
EXTENDS Integers, Sequences, FiniteSets, TLC

VARIABLES
    response_text,      \* interpreter: the raw model text handed to the parser
    parse_filename,     \* interpreter: the filename argument
    parse_result,       \* interpreter: the record returned
    parse_trace,        \* interpreter: which branch ran and whether it raised
    parse_pc,           \* interpreter: "call" before, "returned" after
    prep_filename,      \* adapter: the filename argument
    prep_content,       \* adapter: the file_content argument, a sequence of bytes
    contents,           \* adapter: the payload returned
    prep_trace,         \* adapter: the branch taken and the exception that occurred
    prep_pc,            \* adapter: "call" before, "returned" after
    event,              \* handler: the Lambda event of this invocation
    h_pc,               \* handler: the step the invocation is at
    idx,                \* handler: the 1-based position in the batch of the current item
    cur,                \* handler: the locals of the document being processed
    classifications,    \* handler: the results appended so far (results in s3_handler)
    calls,              \* handler: the collaborator calls and adaptation steps so far
    lambda_response     \* handler: the response returned

parseVars == <<response_text, parse_filename, parse_result, parse_trace, parse_pc>>

prepVars == <<prep_filename, prep_content, contents, prep_trace, prep_pc>>

handlerVars == <<event, h_pc, idx, cur, classifications, calls, lambda_response>>

vars == <<parseVars, prepVars, handlerVars>>

(***************************************************************************)
(* Bounds of the model.                                                    *)
(***************************************************************************)
MaxWords == 2

MaxBytes == 2

MaxBatch == 2

(***************************************************************************)
(* Python string primitives.                                               *)
(***************************************************************************)
Ch(s, i) == SubSeq(s, i, i)

Whitespace == {" ", "\n", "\t", "\r"}

UpperCase == "ABCDEFGHIJKLMNOPQRSTUVWXYZ"

LowerCase == "abcdefghijklmnopqrstuvwxyz"

LowerChar(c) ==
    IF \E k \in 1..Len(UpperCase) : Ch(UpperCase, k) = c
    THEN Ch(LowerCase, CHOOSE k \in 1..Len(UpperCase) : Ch(UpperCase, k) = c)
    ELSE c

RECURSIVE Lower(_)
Lower(s) ==
    IF s = "" THEN "" ELSE LowerChar(Ch(s, 1)) \o Lower(SubSeq(s, 2, Len(s)))

RECURSIVE LStrip(_)
LStrip(s) ==
    IF s # "" /\ Ch(s, 1) \in Whitespace THEN LStrip(SubSeq(s, 2, Len(s))) ELSE s

RECURSIVE RStrip(_)
RStrip(s) ==
    IF s # "" /\ Ch(s, Len(s)) \in Whitespace THEN RStrip(SubSeq(s, 1, Len(s) - 1)) ELSE s

\* str.strip()
Strip(s) == RStrip(LStrip(s))

\* str.find(c): the 0-based index of the first occurrence, -1 when there is none
Find(s, c) ==
    IF \E i \in 1..Len(s) : Ch(s, i) = c
    THEN (CHOOSE i \in 1..Len(s) : Ch(s, i) = c /\ \A j \in 1..(i - 1) : Ch(s, j) # c) - 1
    ELSE -1

\* str.rfind(c): the 0-based index of the last occurrence, -1 when there is none
RFind(s, c) ==
    IF \E i \in 1..Len(s) : Ch(s, i) = c
    THEN (CHOOSE i \in 1..Len(s) : Ch(s, i) = c /\ \A j \in (i + 1)..Len(s) : Ch(s, j) # c) - 1
    ELSE -1

\* s[a:b] for 0 <= a, 0 <= b
Slice(s, a, b) == SubSeq(s, a + 1, b)

\* w in s
Contains(s, w) == \E i \in 1..(Len(s) - Len(w) + 1) : SubSeq(s, i, i + Len(w) - 1) = w

\* s.endswith(w)
EndsWith(s, w) == Len(s) >= Len(w) /\ SubSeq(s, Len(s) - Len(w) + 1, Len(s)) = w

(***************************************************************************)
(* json.loads, as far as the interpreter looks at its result.  A parse     *)
(* yields [ok, pos, t, s, has, ct, cs]: ok is FALSE when JSONDecodeError   *)
(* is raised, pos is the 1-based index after the value, t its type tag,    *)
(* s the text of a string value, and for an object has/ct/cs tell whether  *)
(* the key "classification" is present and the tag and text of its value   *)
(* (the last one wins, as in a Python dict).                               *)
(***************************************************************************)
JsonFail == [ok |-> FALSE, pos |-> 0, t |-> "error", s |-> "",
             has |-> FALSE, ct |-> "none", cs |-> ""]

JsonValue(p, tag, text) == [ok |-> TRUE, pos |-> p, t |-> tag, s |-> text,
                            has |-> FALSE, ct |-> "none", cs |-> ""]

JsonDict(p, h, tag, text) == [ok |-> TRUE, pos |-> p, t |-> "dict", s |-> "",
                              has |-> h, ct |-> tag, cs |-> text]

Digits == {"0", "1", "2", "3", "4", "5", "6", "7", "8", "9"}

RECURSIVE SkipWs(_, _)
SkipWs(s, i) ==
    IF i <= Len(s) /\ Ch(s, i) \in Whitespace THEN SkipWs(s, i + 1) ELSE i

\* one backslash escape of a JSON string; "" for an invalid one
Unescape(c) ==
    CASE c = "\"" -> "\""
      [] c = "\\" -> "\\"
      [] c = "/"  -> "/"
      [] c = "n"  -> "\n"
      [] c = "t"  -> "\t"
      [] c = "r"  -> "\r"
      [] OTHER    -> ""

\* py_scanstring (strict): s[i-1] is the opening quote, acc the text so far
RECURSIVE ScanString(_, _, _)
ScanString(s, i, acc) ==
    IF i > Len(s) THEN JsonFail                                   \* unterminated
    ELSE IF Ch(s, i) = "\"" THEN JsonValue(i + 1, "str", acc)
    ELSE IF Ch(s, i) \in {"\n", "\t", "\r"} THEN JsonFail         \* control character
    ELSE IF Ch(s, i) = "\\"
         THEN IF i + 1 > Len(s) \/ Unescape(Ch(s, i + 1)) = "" THEN JsonFail
              ELSE ScanString(s, i + 2, acc \o Unescape(Ch(s, i + 1)))
    ELSE ScanString(s, i + 1, acc \o Ch(s, i))

\* the integer part of NUMBER_RE: -?(0|[1-9][0-9]*)
RECURSIVE DigitsEnd(_, _)
DigitsEnd(s, i) ==
    IF i <= Len(s) /\ Ch(s, i) \in Digits THEN DigitsEnd(s, i + 1) ELSE i

ScanNumber(s, i) ==
    LET d == IF Ch(s, i) = "-" THEN i + 1 ELSE i
    IN  IF d > Len(s) \/ Ch(s, d) \notin Digits THEN JsonFail
        ELSE IF Ch(s, d) = "0" THEN JsonValue(d + 1, "number", "")
        ELSE JsonValue(DigitsEnd(s, d), "number", "")

(***************************************************************************)
(* The decoder as a machine: [phase, i, stack, last].  phase "value" scans *)
(* a value at index i, "key" an object member's key at i, "after" places   *)
(* the value just scanned (last) into the container on top of the stack,   *)
(* "done" and "fail" end the run.  A frame of the stack is an object or an *)
(* array being read; an object's frame keeps the pending key and what is   *)
(* known of its "classification" member.                                   *)
(***************************************************************************)
JsonState(ph, pos, st, val) == [phase |-> ph, i |-> pos, stack |-> st, last |-> val]

Frame(kind, key, d) == [k |-> kind, key |-> key, has |-> d.has, ct |-> d.ct, cs |-> d.cs]

FailState == JsonState("fail", 0, <<>>, JsonFail)

\* a scanned value becomes the machine's last value
Scanned(q, value) ==
    IF value.ok THEN JsonState("after", value.pos, q.stack, value) ELSE FailState

\* scanner.py_make_scanner._scan_once: the value that starts with the
\* character c at index q.i; j is the index of the next non-blank
ScanValue(s, q, c, j) ==
    CASE c = "\"" -> Scanned(q, ScanString(s, q.i + 1, ""))
      [] c = "{"  ->
           IF j > Len(s) THEN FailState
           ELSE IF Ch(s, j) = "}"
           THEN Scanned(q, JsonDict(j + 1, FALSE, "none", ""))
           ELSE IF Ch(s, j) # "\"" THEN FailState
           ELSE JsonState("key", j,
                          <<Frame("dict", "", JsonDict(0, FALSE, "none", ""))>>
                              \o q.stack, q.last)
      [] c = "["  ->
           IF j > Len(s) THEN FailState
           ELSE IF Ch(s, j) = "]" THEN Scanned(q, JsonValue(j + 1, "list", ""))
           ELSE JsonState("value", j, <<Frame("list", "", JsonFail)>> \o q.stack,
                          q.last)
      [] c = "n" /\ SubSeq(s, q.i, q.i + 3) = "null"  ->
           Scanned(q, JsonValue(q.i + 4, "null", ""))
      [] c = "t" /\ SubSeq(s, q.i, q.i + 3) = "true"  ->
           Scanned(q, JsonValue(q.i + 4, "bool", ""))
      [] c = "f" /\ SubSeq(s, q.i, q.i + 4) = "false" ->
           Scanned(q, JsonValue(q.i + 5, "bool", ""))
      [] c \in Digits \cup {"-"} -> Scanned(q, ScanNumber(s, q.i))
      [] OTHER -> FailState

ScanOnce(s, q) ==
    IF q.i > Len(s) THEN FailState
    ELSE ScanValue(s, q, Ch(s, q.i), SkipWs(s, q.i + 1))

\* decoder.JSONObject: after the key of a member comes ":" and its value
KeyScanned(s, q, key, colon) ==
    IF ~key.ok THEN FailState
    ELSE IF colon > Len(s) \/ Ch(s, colon) # ":" THEN FailState
    ELSE JsonState("value", SkipWs(s, colon + 1),
                   <<[Head(q.stack) EXCEPT !.key = key.s]>> \o Tail(q.stack), q.last)

KeyColon(s, q, key) == KeyScanned(s, q, key, SkipWs(s, key.pos))

\* decoder.JSONObject: a member's key from its opening quote at q.i
ObjectKey(s, q) == KeyColon(s, q, ScanString(s, q.i + 1, ""))

\* pairs: the object read so far with the member just scanned put in it
Pairs(top, value) ==
    IF top.key = "classification"
    THEN Frame("dict", "", JsonDict(0, TRUE, value.t, value.s))
    ELSE Frame("dict", "", top)

\* decoder.JSONObject: after a member's value at index e, "}" ends the
\* object and "," must be followed by the next key, at index n
MemberEnd(s, q, pairs, e, n) ==
    IF e > Len(s) THEN FailState
    ELSE IF Ch(s, e) = "}"
    THEN JsonState("after", e + 1, Tail(q.stack),
                   JsonDict(e + 1, pairs.has, pairs.ct, pairs.cs))
    ELSE IF Ch(s, e) # "," THEN FailState
    ELSE IF n > Len(s) \/ Ch(s, n) # "\"" THEN FailState
    ELSE JsonState("key", n, <<pairs>> \o Tail(q.stack), q.last)

MemberNext(s, q, pairs, e) == MemberEnd(s, q, pairs, e, SkipWs(s, e + 1))

ObjectAfter(s, q) == MemberNext(s, q, Pairs(Head(q.stack), q.last), SkipWs(s, q.i))

\* decoder.JSONArray: after an element at index e, "]" ends the array and
\* "," must be followed by the next element
ElementEnd(s, q, e) ==
    IF e > Len(s) THEN FailState
    ELSE IF Ch(s, e) = "]"
    THEN JsonState("after", e + 1, Tail(q.stack), JsonValue(e + 1, "list", ""))
    ELSE IF Ch(s, e) # "," THEN FailState
    ELSE JsonState("value", SkipWs(s, e + 1), q.stack, q.last)

ArrayAfter(s, q) == ElementEnd(s, q, SkipWs(s, q.i))

JsonStep(s, q) ==
    CASE q.phase = "value" -> ScanOnce(s, q)
      [] q.phase = "key"   -> ObjectKey(s, q)
      [] q.phase = "after" ->
             IF q.stack = <<>> THEN JsonState("done", q.i, <<>>, q.last)
             ELSE IF Head(q.stack).k = "dict" THEN ObjectAfter(s, q)
             ELSE ArrayAfter(s, q)
      [] OTHER -> q

RECURSIVE JsonRun(_, _)
JsonRun(s, q) ==
    IF q.phase \in {"done", "fail"} THEN q ELSE JsonRun(s, JsonStep(s, q))

\* decoder.JSONDecoder.decode: nothing but whitespace may follow the value
JsonEnd(s, q) ==
    IF q.phase = "fail" THEN JsonFail
    ELSE IF SkipWs(s, q.i) <= Len(s) THEN JsonFail      \* Extra data
    ELSE q.last

\* json.loads(s): one value with whitespace around it
JsonLoads(s) == JsonEnd(s, JsonRun(s, JsonState("value", SkipWs(s, 1), <<>>, JsonFail)))

(***************************************************************************)
(* The response interpreter.                                               *)
(***************************************************************************)
DOCUMENT_TYPES == <<"Loss Run", "ACORD form", "Supplemental forms", "Mod sheet">>

\* any(word in response_lower for word in words)
AnyWordIn(words, response_lower) ==
    \E k \in 1..Len(words) : Contains(response_lower, words[k])

\* a variant that tests the last two keyword groups in the other order
FallbackModBeforeForm(response) ==
    LET response_lower == Lower(response)
        classification ==
            IF AnyWordIn(<<"loss run", "loss", "claims", "history">>, response_lower)
            THEN "Loss Run"
            ELSE IF AnyWordIn(<<"mod", "modification", "rating">>, response_lower)
            THEN "Mod sheet"
            ELSE IF AnyWordIn(<<"acord", "form">>, response_lower)
            THEN "ACORD form"
            ELSE IF AnyWordIn(<<"supplemental", "endorsement", "rider">>, response_lower)
            THEN "Supplemental forms"
            ELSE "Unknown"
    IN  JsonDict(0, TRUE, "str", classification)

\* _fallback_parsing: the keyword scan; returns the dict {"classification": label}
_fallback_parsing(response) ==
    LET response_lower == Lower(response)
        classification ==
            IF AnyWordIn(<<"loss run", "loss", "claims", "history">>, response_lower)
            THEN "Loss Run"
            ELSE IF AnyWordIn(<<"acord", "form">>, response_lower)
            THEN "ACORD form"
            ELSE IF AnyWordIn(<<"supplemental", "endorsement", "rider">>, response_lower)
            THEN "Supplemental forms"
            ELSE IF AnyWordIn(<<"mod", "modification", "rating">>, response_lower)
            THEN "Mod sheet"
            ELSE "Unknown"
    IN  JsonDict(0, TRUE, "str", classification)

\* a variant that compares without regard to letter case
InDocumentTypesAnyCase(classification) ==
    \E k \in 1..Len(DOCUMENT_TYPES) : Lower(DOCUMENT_TYPES[k]) = Lower(classification)

\* classification in DOCUMENT_TYPES
InDocumentTypes(classification) ==
    \E k \in 1..Len(DOCUMENT_TYPES) : DOCUMENT_TYPES[k] = classification

\* a variant that forgets the + 1 and so leaves the closing brace out of the slice
LocateJsonExclusiveEnd(text) ==
    [start_idx |-> Find(text, "{"), end_idx |-> RFind(text, "}")]

\* start_idx = response_text.find('{'); end_idx = response_text.rfind('}') + 1
LocateJson(text) ==
    [start_idx |-> Find(text, "{"), end_idx |-> RFind(text, "}") + 1]

\* a variant whose handler catches only the JSON decoder's error
CatchesOnlyDecodeError(exc) == exc = "JSONDecodeError"

\* except Exception: every exception the try body can raise is caught
Catches(exc) == TRUE

\* a response that is text, and the absent (None) response
Text(s) == [present |-> TRUE, text |-> s]

NoText == [present |-> FALSE, text |-> ""]

ParseRaised(br, exc) ==
    [raised |-> exc, branch |-> br, candidate |-> "", classification |-> "Unknown"]

\* The try body of _parse_classification_response, step by step: raised is the
\* exception the body raised ("none" when it ran to its return), branch the
\* source of the candidate label, candidate the label before validation.

\* a variant that returns the candidate label without validating it
KeepCandidateLabel(branch, classification) ==
    [raised |-> "none", branch |-> branch, candidate |-> classification,
     classification |-> classification]

\* if classification not in DOCUMENT_TYPES: classification = "Unknown"
ValidateLabel(branch, classification) ==
    [raised |-> "none", branch |-> branch, candidate |-> classification,
     classification |-> IF InDocumentTypes(classification)
                        THEN classification ELSE "Unknown"]

\* value.strip(), for the value that result.get("classification", "") gave
StripValue(branch, value) ==
    IF value.t # "str" THEN ParseRaised(branch, "AttributeError")      \* no .strip
    ELSE ValidateLabel(branch, Strip(value.s))

\* result.get("classification", "")
GetClassification(branch, result) ==
    IF ~result.ok THEN ParseRaised(branch, "JSONDecodeError")
    ELSE IF result.t # "dict" THEN ParseRaised(branch, "AttributeError")   \* no .get
    ELSE StripValue(branch, IF result.has THEN [t |-> result.ct, s |-> result.cs]
                                          ELSE [t |-> "str", s |-> ""])

\* if start_idx != -1 and end_idx != 0: json.loads(slice) else the keyword scan
ParseAt(text, at) ==
    IF at.start_idx # -1 /\ at.end_idx # 0
    THEN GetClassification("json", JsonLoads(Slice(text, at.start_idx, at.end_idx)))
    ELSE GetClassification("fallback", _fallback_parsing(text))

ParseText(text) == ParseAt(text, LocateJson(text))

ParseSteps(response) ==
    IF ~response.present THEN ParseRaised("none", "AttributeError")  \* None.strip()
    ELSE ParseText(Strip(response.text))

\* the except clause: the fixed record for a caught exception
ParseOutcome(steps, filename) ==
    IF steps.raised # "none" /\ ~Catches(steps.raised)
    THEN [escaped |-> TRUE,
          value |-> [filename |-> filename, classification |-> ""]]
    ELSE [escaped |-> FALSE,
          value |-> [filename |-> filename, classification |-> steps.classification]]

\* _parse_classification_response: [escaped, value]; escaped says that an
\* exception left the function, value is the record returned otherwise
_parse_classification_response(response, filename) ==
    ParseOutcome(ParseSteps(response), filename)

(***************************************************************************)
(* The prompt builder: the response format that the prompt shows to the    *)
(* model, with the placeholder for the category.                           *)
(***************************************************************************)
FormatHead == "{\n            \"classification\": \""

FormatPlaceholder == "ONE_OF_THE_FOUR_TYPES"

FormatTail == "\",\n        }"

_build_classification_prompt(filename) ==
    [filename |-> filename,
     categories |-> DOCUMENT_TYPES,
     format |-> FormatHead \o FormatPlaceholder \o FormatTail]

\* the documented format with a category put in the placeholder's place
ExampleOutput(prompt, category) ==
    LET f == prompt.format
        at == CHOOSE i \in 1..Len(f) :
                 SubSeq(f, i, i + Len(FormatPlaceholder) - 1) = FormatPlaceholder
    IN  SubSeq(f, 1, at - 1) \o category \o SubSeq(f, at + Len(FormatPlaceholder), Len(f))

(***************************************************************************)
(* The content adapter.  File contents are sequences of byte values; a     *)
(* decoded text is the sequence of its code points.  A part of a payload   *)
(* is [kind, role, name, body, msg]: kind "text" (a str), "bytes" (the raw *)
(* bytes object), "file" (the handle upload_file returns) or "stream" (a   *)
(* file-like object, one that has a read attribute).                       *)
(***************************************************************************)
\* the text after the last occurrence of the one-character separator sep
RECURSIVE LastPart(_, _)
LastPart(s, sep) ==
    IF Find(s, sep) = -1 THEN s ELSE LastPart(SubSeq(s, Find(s, sep) + 2, Len(s)), sep)

\* a variant of the table of media types that has no entry for csv
ContentTypeWithoutCsv(filename) ==
    LET extension == IF Contains(filename, ".") THEN LastPart(Lower(filename), ".") ELSE ""
    IN  CASE extension = "pdf"  -> "application/pdf"
          [] extension = "xlsx" ->
                 "application/vnd.openxmlformats-officedocument.spreadsheetml.sheet"
          [] extension = "xls"  -> "application/vnd.ms-excel"
          [] extension = "doc"  -> "application/msword"
          [] extension = "docx" ->
                 "application/vnd.openxmlformats-officedocument.wordprocessingml.document"
          [] OTHER -> "application/octet-stream"

\* _get_content_type: the media type declared by the filename's extension
_get_content_type(filename) ==
    LET extension == IF Contains(filename, ".") THEN LastPart(Lower(filename), ".") ELSE ""
    IN  CASE extension = "pdf"  -> "application/pdf"
          [] extension = "xlsx" ->
                 "application/vnd.openxmlformats-officedocument.spreadsheetml.sheet"
          [] extension = "xls"  -> "application/vnd.ms-excel"
          [] extension = "csv"  -> "text/csv"
          [] extension = "doc"  -> "application/msword"
          [] extension = "docx" ->
                 "application/vnd.openxmlformats-officedocument.wordprocessingml.document"
          [] OTHER -> "application/octet-stream"

IsContinuation(b) == b >= 128 /\ b <= 191

\* bytes.decode('utf-8'): [ok, text]; ok is FALSE when UnicodeDecodeError is raised
RECURSIVE Utf8Decode(_)
Utf8Decode(bytes) ==
    IF bytes = <<>> THEN [ok |-> TRUE, text |-> <<>>]
    ELSE
    LET b == bytes[1]
        n == IF b <= 127 THEN 1
             ELSE IF b >= 194 /\ b <= 223 THEN 2
             ELSE IF b >= 224 /\ b <= 239 THEN 3
             ELSE IF b >= 240 /\ b <= 244 THEN 4
             ELSE 0
    IN  IF n = 0 \/ Len(bytes) < n \/ \E k \in 2..n : ~IsContinuation(bytes[k])
        THEN [ok |-> FALSE, text |-> <<>>]
        ELSE
        LET cp == CASE n = 1 -> b
                    [] n = 2 -> (b - 192) * 64 + (bytes[2] - 128)
                    [] n = 3 -> (b - 224) * 4096 + (bytes[2] - 128) * 64 + (bytes[3] - 128)
                    [] n = 4 -> (b - 240) * 262144 + (bytes[2] - 128) * 4096
                                + (bytes[3] - 128) * 64 + (bytes[4] - 128)
            valid == CASE n = 3 -> cp >= 2048 /\ ~(cp >= 55296 /\ cp <= 57343)
                       [] n = 4 -> cp >= 65536 /\ cp <= 1114111
                       [] OTHER -> TRUE
            rest == Utf8Decode(SubSeq(bytes, n + 1, Len(bytes)))
        IN  IF ~valid \/ ~rest.ok THEN [ok |-> FALSE, text |-> <<>>]
            ELSE [ok |-> TRUE, text |-> <<cp>> \o rest.text]

\* the prompt string, as an item of a payload
PromptPart(prompt) ==
    [kind |-> "text", role |-> "prompt", name |-> prompt.filename, body |-> <<>>, msg |-> ""]

\* an f-string that wraps a text with a header naming the file
TextPart(role, filename, body) ==
    [kind |-> "text", role |-> role, name |-> filename, body |-> body, msg |-> ""]

\* f"Error processing file {filename}: {str(e)}"
ErrorPart(filename, exc) ==
    [kind |-> "text", role |-> "error", name |-> filename, body |-> <<>>, msg |-> exc]

\* file_content itself, a bytes object
BytesPart(file_content) ==
    [kind |-> "bytes", role |-> "raw", name |-> "", body |-> file_content, msg |-> ""]

\* the handle returned by client.upload_file(..., mime_type="application/pdf")
FilePart(filename, file_content) ==
    [kind |-> "file", role |-> "uploaded", name |-> filename, body |-> file_content, msg |-> ""]

\* hasattr(item, "read")
HasRead(item) == item.kind = "stream"

\* a variant whose spreadsheet branch catches every exception of the parse
ExcelHandlesAny(exc) == TRUE

\* a variant whose spreadsheet branch has no handler of its own
ExcelHandlesNothing(exc) == FALSE

\* except ImportError: the only exception the spreadsheet branch handles itself
ExcelHandles(exc) == exc = "ImportError"

\* The outcomes of the collaborators the adapter calls: upload is what
\* client.upload_file does ("ok" or the exception raised), read_excel what
\* "import pandas" and pd.read_excel do ("table", "ImportError" when pandas or
\* its engine is missing, "ValueError" when the workbook is malformed).
UploadOutcomes == {"ok", "UploadError"}

ReadExcelOutcomes == {"table", "ImportError", "ValueError"}

AdapterEnvs == [upload : UploadOutcomes, read_excel : ReadExcelOutcomes]

\* The try body of _prepare_gemini_content up to the safety check: raised is
\* the exception that occurred ("none" when there was none), by who handled
\* it ("branch": the branch's own except, "adapter": nobody yet).
PrepareBranch(file_content, filename, mime_type, prompt, env) ==
    IF mime_type = "application/pdf"
    THEN IF env.upload = "ok"
         THEN [branch |-> "pdf", raised |-> "none", by |-> "none",
               contents |-> <<FilePart(filename, file_content), PromptPart(prompt)>>]
         ELSE [branch |-> "pdf", raised |-> env.upload, by |-> "adapter", contents |-> <<>>]
    ELSE IF mime_type \in
              {"application/vnd.openxmlformats-officedocument.spreadsheetml.sheet",
               "application/vnd.ms-excel"}
    THEN IF env.read_excel = "table"
         THEN [branch |-> "excel", raised |-> "none", by |-> "none",
               contents |-> <<TextPart("excel_csv", filename, <<>>),   \* df.to_csv()
                              PromptPart(prompt)>>]
         ELSE IF ExcelHandles(env.read_excel)
         THEN [branch |-> "excel", raised |-> env.read_excel, by |-> "branch",
               contents |-> <<PromptPart(prompt), BytesPart(file_content)>>]
         ELSE [branch |-> "excel", raised |-> env.read_excel, by |-> "adapter",
               contents |-> <<>>]
    ELSE IF mime_type = "text/csv"
    THEN IF Utf8Decode(file_content).ok
         THEN [branch |-> "csv", raised |-> "none", by |-> "none",
               contents |-> <<TextPart("csv", filename, Utf8Decode(file_content).text),
                              PromptPart(prompt)>>]
         ELSE [branch |-> "csv", raised |-> "UnicodeDecodeError", by |-> "adapter",
               contents |-> <<>>]
    ELSE IF EndsWith(Lower(filename), ".txt") \/ EndsWith(Lower(filename), ".doc")
    THEN IF Utf8Decode(file_content).ok
         THEN [branch |-> "text", raised |-> "none", by |-> "none",
               contents |-> <<TextPart("text", filename, Utf8Decode(file_content).text),
                              PromptPart(prompt)>>]
         ELSE [branch |-> "text", raised |-> "UnicodeDecodeError", by |-> "branch",
               contents |-> <<PromptPart(prompt), BytesPart(file_content)>>]
    ELSE [branch |-> "binary", raised |-> "none", by |-> "none",
          contents |-> <<PromptPart(prompt), BytesPart(file_content)>>]

\* The final safety check: for a type other than PDF a file-like item raises
SafetyCheck(step, mime_type) ==
    IF step.by # "adapter" /\ mime_type # "application/pdf"
       /\ \E k \in 1..Len(step.contents) : HasRead(step.contents[k])
    THEN [step EXCEPT !.raised = "ValueError", !.by = "adapter", !.contents = <<>>]
    ELSE step

\* a variant whose handler catches only ValueError and its subclasses
AdapterCatchesValueErrors(exc) == exc \in {"ValueError", "UnicodeDecodeError"}

\* except Exception: every exception of the try body is caught
AdapterCatches(exc) == TRUE

\* _prepare_gemini_content: [escaped, contents, trace]; every exception that
\* reaches the function's own handler is turned into the emergency payload
_prepare_gemini_content(file_content, filename, mime_type, prompt, env) ==
    LET step == SafetyCheck(PrepareBranch(file_content, filename, mime_type, prompt, env),
                            mime_type)
        trace == [branch |-> step.branch, raised |-> step.raised, by |-> step.by]
    IN  IF step.by = "adapter"
        THEN IF AdapterCatches(step.raised)
             THEN [escaped |-> FALSE, trace |-> trace,
                   contents |-> <<PromptPart(prompt), ErrorPart(filename, step.raised)>>]
             ELSE [escaped |-> TRUE, trace |-> trace, contents |-> <<>>]
        ELSE [escaped |-> FALSE, trace |-> trace, contents |-> step.contents]

(***************************************************************************)
(* base64.b64decode(s) for a str s, validate=False: binascii.a2b_base64    *)
(* skips every character outside the alphabet, stops at the padding that   *)
(* completes a quad and raises binascii.Error when the data characters     *)
(* end inside a quad.  The result is [ok, bytes].                          *)
(***************************************************************************)
B64Alphabet == "ABCDEFGHIJKLMNOPQRSTUVWXYZabcdefghijklmnopqrstuvwxyz0123456789+/"

\* one data character of value v at position quad_pos of its quad
B64Data(st, v) ==
    CASE st.quad_pos = 0 -> [st EXCEPT !.quad_pos = 1, !.leftchar = v, !.pads = 0]
      [] st.quad_pos = 1 -> [st EXCEPT !.quad_pos = 2, !.leftchar = v % 16, !.pads = 0,
                                       !.out = @ \o <<st.leftchar * 4 + v \div 16>>]
      [] st.quad_pos = 2 -> [st EXCEPT !.quad_pos = 3, !.leftchar = v % 4, !.pads = 0,
                                       !.out = @ \o <<st.leftchar * 16 + v \div 4>>]
      [] OTHER           -> [st EXCEPT !.quad_pos = 0, !.leftchar = 0, !.pads = 0,
                                       !.out = @ \o <<st.leftchar * 64 + v>>]

\* one character c of the input; done is set by the padding that ends the data
B64Char(st, c, v) ==
    IF c = "="
    THEN IF st.quad_pos >= 2
         THEN IF st.quad_pos + st.pads + 1 >= 4
              THEN [st EXCEPT !.pads = @ + 1, !.done = TRUE]
              ELSE [st EXCEPT !.pads = @ + 1]
         ELSE st
    ELSE IF v = -1 THEN st
    ELSE B64Data(st, v)

RECURSIVE B64Scan(_, _, _)
B64Scan(s, i, st) ==
    IF st.done \/ i > Len(s) THEN st
    ELSE B64Scan(s, i + 1, B64Char(st, Ch(s, i), Find(B64Alphabet, Ch(s, i))))

\* a variant that accepts data characters that end inside a quad
B64ResultLenient(st) == [ok |-> TRUE, bytes |-> st.out]

B64Result(st) == [ok |-> st.done \/ st.quad_pos = 0, bytes |-> st.out]

b64decode(s) ==
    B64Result(B64Scan(s, 1, [quad_pos |-> 0, leftchar |-> 0, pads |-> 0,
                             done |-> FALSE, out |-> <<>>]))

(***************************************************************************)
(* The Lambda handlers.  A Python dict is a TLA+ record whose fields are   *)
(* the keys present; times, UUIDs and bucket names are the fixed values    *)
(* below.  An exception is the name of its class, and str(e) is that name. *)
(***************************************************************************)
UploadsBucket == "uploads"

Now == "T"

\* dict.update and d[k] = v: the fields of new are set in d
Update(d, new) == new @@ d

\* handler, lines 530-533, 545-605: the branch an event is routed to
Route(ev) ==
    IF ev.Records # <<>> /\ ev.Records[1].eventSource = "aws:s3" THEN "s3_event"
    ELSE IF ev.body.action = "list_files" THEN "list_files"
    ELSE IF ev.body.action = "classify_existing" THEN "classify_existing"
    ELSE "classify_files"

\* the list the branch loops over
Items(ev) ==
    CASE Route(ev) = "s3_event"          -> ev.Records
      [] Route(ev) = "classify_existing" -> ev.body.s3_keys
      [] Route(ev) = "classify_files"    -> ev.body.files
      [] OTHER                           -> <<>>

\* the locals of the per-document methods
Locals(filename, bucket, key, file_content, payload, result) ==
    [filename |-> filename, bucket |-> bucket, key |-> key,
     file_content |-> file_content, contents |-> payload, result |-> result]

NoLocals == Locals("", "", "", <<>>, <<>>, [filename |-> "", classification |-> ""])

\* an entry of the log: operation, position of the document, success, for a
\* model call the response it returned, and for a storage call its Key
Call(op, doc, ok, text) ==
    [op |-> op, doc |-> doc, ok |-> ok, text |-> text, key |-> ""]

\* a put_object or get_object call with its Key argument
StorageCall(op, doc, ok, key) == [Call(op, doc, ok, NoText) EXCEPT !.key = key]

\* upload_file_to_s3, lines 223-225: the key of an uploaded file
UploadKey(filename) == "api-uploads/" \o Now \o "/U_" \o filename

\* _save_classification_result, lines 199-200: the key of a saved result
ResultKey(filename) == "results/" \o Now \o "/" \o filename \o ".json"

\* handler, lines 634-639: the record for content that is not base64
InvalidContentRecord(filename) ==
    [filename |-> filename, classification |-> "Unknown", confidence |-> "0.0",
     error |-> "Invalid file content"]

\* classify_document, lines 387-392
ClassifyDocumentError(filename, e) ==
    [filename |-> filename, classification |-> "Unknown", confidence |-> "0.0",
     error |-> e]

\* a variant that reports the failure without the error detail
ClassifyFromS3ErrorWithoutDetail(filename, s3_key, e) ==
    [filename |-> filename, classification |-> "Unknown", confidence |-> "0.0",
     s3_key |-> s3_key]

\* classify_document_from_s3, lines 287-293
ClassifyFromS3Error(filename, s3_key, e) ==
    [filename |-> filename, classification |-> "Unknown", confidence |-> "0.0",
     error |-> e, s3_key |-> s3_key]

\* classify_existing_s3_file, lines 130-137, and
\* classify_document_from_s3_event, lines 181-188
SourceError(filename, bucket, key, e) ==
    [filename |-> filename, classification |-> "Unknown", error |-> e,
     source_bucket |-> bucket, source_key |-> key, processed_at |-> Now]

\* the error record of the method that the branch calls
ErrorRecord(route, c, e) ==
    CASE route = "classify_files" /\ c.key = "" -> ClassifyDocumentError(c.filename, e)
      [] route = "classify_files" /\ c.key # "" -> ClassifyFromS3Error(c.filename, c.key, e)
      [] OTHER -> SourceError(c.filename, c.bucket, c.key, e)

\* classify_document_from_s3, lines 280-281
WithS3Location(result, s3_key) ==
    Update(result, [s3_key |-> s3_key, s3_url |-> "s3://uploads/" \o s3_key])

\* a variant of the metadata update that also writes the key over the filename
WithSourceRenaming(result, bucket, key, file_content) ==
    Update(result, [filename |-> key, source_bucket |-> bucket, source_key |-> key,
                    processed_at |-> Now, file_size |-> Len(file_content)])

\* classify_document_from_s3_event, lines 165-170
WithSource(result, bucket, key, file_content) ==
    Update(result, [source_bucket |-> bucket, source_key |-> key,
                    processed_at |-> Now, file_size |-> Len(file_content)])

\* classify_existing_s3_file, lines 108-114
WithSourceAndMethod(result, bucket, key, file_content) ==
    Update(WithSource(result, bucket, key, file_content),
           [processing_method |-> "existing_file_selection"])

\* the metadata that the branch adds to the interpreter's record
WithMetadata(route, c, result) ==
    CASE route = "classify_files"    -> WithS3Location(result, c.key)
      [] route = "classify_existing" ->
             WithSourceAndMethod(result, c.bucket, c.key, c.file_content)
      [] OTHER -> WithSource(result, c.bucket, c.key, c.file_content)

\* _save_classification_result: the result key, or None when the put raised
SavedKey(filename, put_ok) ==
    IF put_ok THEN ResultKey(filename) ELSE "None"

\* a variant in which a record that could not be saved loses its label
WithResultKeyOrUnknown(route, result, result_key) ==
    IF result_key = "None"
    THEN Update(result, [classification |-> "Unknown", result_key |-> result_key])
    ELSE Update(result, [result_key |-> result_key])

\* lines 118-120 (result_key only when truthy) and lines 173-174 (always)
WithResultKey(route, result, result_key) ==
    IF route = "classify_existing" /\ result_key = "None" THEN result
    ELSE Update(result, [result_key |-> result_key])

\* the responses of handler and s3_handler
Response(status, success, total, error) ==
    [statusCode |-> status, success |-> success, total_files |-> total, error |-> error]

NoResponse == Response(0, FALSE, 0, "")

(***************************************************************************)
(* The raw model texts the interpreter is run on.                          *)
(***************************************************************************)
Categories == {DOCUMENT_TYPES[k] : k \in 1..Len(DOCUMENT_TYPES)}

Labels == Categories \cup {"Unknown"}

Prefixes == {"", " \n", "Sure: ", "~~~json\n"}

Suffixes == {"", "\n", " form", "\n~~~", " }"}

Keys == {"\"classification\"", "\"Classification\"", "\"label\""}

Values ==
    {"\"" \o c \o "\"" : c \in Categories} \cup
    {"\"loss run\"", "\"Invoice\"", "\"\"", "\" Mod sheet \"", "\"Unknown\"",
     "7", "null", "[\"Loss Run\"]", "{\"classification\": \"Loss Run\"}",
     "\"Loss\nRun\"", "\"Loss Run", "\"Loss \\\"Run\\\"\""}

Trailers == {"", ",", " ", ", \"confidence\": 7", ", \"classification\": \"Mod sheet\""}

ObjectText(key, value, trailer) == "{" \o key \o ": " \o value \o trailer \o "}"

JsonTexts ==
    {pre \o ObjectText(k, v, t) \o post :
        pre \in Prefixes, k \in Keys, v \in Values, t \in Trailers, post \in Suffixes}

OddTexts ==
    {"{", "}", "}{", "{}", "[]", "{loss", "loss}", "} loss {", "{loss}", "{ form }",
     "{\"a\": {\"classification\": \"Loss Run\"}}",
     "[{\"classification\": \"Loss Run\"}]",
     "[{\"classification\": \"Loss Run\"}, {\"classification\": 7}]",
     "{\"classification\": \"Loss Run\"} {\"classification\": \"Mod sheet\"}",
     "{{\"classification\": \"Loss Run\"}}",
     "\"Loss Run\"",
     "{\"classification\": \"Loss Run\"",
     "{'classification': 'Loss Run'}",
     "I think this is a Loss Run document, yes."}

Words ==
    {"loss", "claims", "history", "acord", "form", "supplemental", "endorsement",
     "rider", "mod", "modification", "rating", "xyz", "Information", "LOSS RUN"}

RECURSIVE Join(_)
Join(ws) ==
    IF ws = <<>> THEN ""
    ELSE IF Len(ws) = 1 THEN ws[1]
    ELSE ws[1] \o " " \o Join(Tail(ws))

\* the brace-free texts of at most MaxWords words
ProseTexts == {Join(ws) : ws \in UNION {[1..n -> Words] : n \in 0..MaxWords}}

ExampleTexts == {ExampleOutput(_build_classification_prompt("X"), c) : c \in Categories}

RawResponses ==
    {Text(s) : s \in JsonTexts \cup OddTexts \cup ProseTexts \cup ExampleTexts}
    \cup {NoText}

(***************************************************************************)
(* The files the adapter is run on.                                        *)
(***************************************************************************)
Filenames ==
    {"Report.PDF", "book.xlsx", "old.xls", "data.csv", "notes.txt", "memo.doc",
     "memo.docx", "scan.bin", "pdf"}

\* "," and "A", the two bytes of U+00E9, and a byte that no UTF-8 text holds
ByteValues == {44, 65, 195, 169, 255}

FileContents == UNION {[1..n -> ByteValues] : n \in 0..MaxBytes}

(***************************************************************************)
(* The events the handler is run on, and what its collaborators can do.    *)
(***************************************************************************)
\* entries of body["files"]: "QQ==" is b"A", "/w==" is b"\xff" (not UTF-8),
\* "QQ" is not base64 (incorrect padding)
FileEntries ==
    {[filename |-> "a.pdf", content |-> "QQ=="],
     [filename |-> "data.csv", content |-> "/w=="],
     [filename |-> "notes.txt", content |-> "QQ"]}

S3Keys == {"in/a.pdf", "book.xlsx"}

S3Records ==
    {[eventSource |-> "aws:s3", bucket |-> "uploads", key |-> "in/data.csv"],
     [eventSource |-> "aws:sqs", bucket |-> "uploads", key |-> "x.pdf"]}

\* what get_object can return for a key that was not uploaded in this invocation
StoredContents == {<<65>>, <<255>>}

\* what list_objects_v2 can return: the keys under the prefix
Listings == {<<>>, <<"in/", "in/a.pdf">>}

\* what generate_content can return
ModelTexts ==
    {"{\"classification\": \"Loss Run\"}", "a mod rating sheet",
     "{\"classification\": \"Invoice\"}"}

Batches(pool) == UNION {[1..n -> pool] : n \in 0..MaxBatch}

Body(action, files, s3_keys) == [action |-> action, files |-> files, s3_keys |-> s3_keys]

Events ==
    {[Records |-> rs, body |-> Body("", <<>>, <<>>)] : rs \in Batches(S3Records)}
    \cup {[Records |-> <<>>, body |-> Body("", fs, <<>>)] : fs \in Batches(FileEntries)}
    \cup {[Records |-> <<>>, body |-> Body("classify_files", <<f>>, <<>>)] :
              f \in FileEntries}
    \cup {[Records |-> <<>>, body |-> Body("classify_existing", <<>>, ks)] :
              ks \in Batches(S3Keys)}
    \cup {[Records |-> <<>>, body |-> Body("list_files", <<>>, <<>>)]}

(***************************************************************************)
(* The state of a component that a specification does not run.             *)
(***************************************************************************)
NoResult == [filename |-> "", classification |-> ""]

NoTrace == [raised |-> "none", branch |-> "none", candidate |-> "", classification |-> ""]

NoPrepTrace == [branch |-> "none", raised |-> "none", by |-> "none"]

ParseIdle ==
    /\ response_text = NoText
    /\ parse_filename = ""
    /\ parse_result = NoResult
    /\ parse_trace = NoTrace
    /\ parse_pc = "idle"

PrepIdle ==
    /\ prep_filename = ""
    /\ prep_content = <<>>
    /\ contents = <<>>
    /\ prep_trace = NoPrepTrace
    /\ prep_pc = "idle"

HandlerIdle ==
    /\ event = [Records |-> <<>>, body |-> Body("", <<>>, <<>>)]
    /\ h_pc = "idle"
    /\ idx = 0
    /\ cur = NoLocals
    /\ classifications = <<>>
    /\ calls = <<>>
    /\ lambda_response = NoResponse

(***************************************************************************)
(* SpecParse: the interpreter run once on each raw response.               *)
(***************************************************************************)
InitParse ==
    /\ response_text \in RawResponses
    /\ parse_filename = "X"
    /\ parse_result = NoResult
    /\ parse_trace = NoTrace
    /\ parse_pc = "call"
    /\ PrepIdle
    /\ HandlerIdle

\* one call of _parse_classification_response(response_text, filename)
ParseResponse ==
    /\ parse_pc = "call"
    /\ LET out == _parse_classification_response(response_text, parse_filename)
       IN  /\ parse_pc' = IF out.escaped THEN "raised" ELSE "returned"
           /\ parse_result' = IF out.escaped THEN NoResult ELSE out.value
    /\ parse_trace' = ParseSteps(response_text)
    /\ UNCHANGED <<response_text, parse_filename, prepVars, handlerVars>>

NextParse == ParseResponse

SpecParse == InitParse /\ [][NextParse]_vars

(***************************************************************************)
(* SpecPrep: the adapter run once on each file, with every outcome of the  *)
(* collaborators it calls.                                                 *)
(***************************************************************************)
InitPrep ==
    /\ prep_filename \in Filenames
    /\ prep_content \in FileContents
    /\ contents = <<>>
    /\ prep_trace = NoPrepTrace
    /\ prep_pc = "call"
    /\ ParseIdle
    /\ HandlerIdle

\* one call of _prepare_gemini_content, as its callers make it
PrepareContent ==
    /\ prep_pc = "call"
    /\ \E env \in AdapterEnvs :
          LET out == _prepare_gemini_content(prep_content, prep_filename,
                                             _get_content_type(prep_filename),
                                             _build_classification_prompt(prep_filename),
                                             env)
          IN  /\ contents' = out.contents
              /\ prep_trace' = out.trace
              /\ prep_pc' = IF out.escaped THEN "raised" ELSE "returned"
    /\ UNCHANGED <<prep_filename, prep_content, parseVars, handlerVars>>

NextPrep == PrepareContent

SpecPrep == InitPrep /\ [][NextPrep]_vars

(***************************************************************************)
(* Spec: one invocation of handler on each event, step by step.  A step    *)
(* runs the code from one collaborator call up to the next one.            *)
(***************************************************************************)
Init ==
    /\ event \in Events
    /\ h_pc = "start"
    /\ idx = 0
    /\ cur = NoLocals
    /\ classifications = <<>>
    /\ calls = <<>>
    /\ lambda_response = NoResponse
    /\ ParseIdle
    /\ PrepIdle

\* return {...}: the invocation ends with this response
Return(resp) ==
    /\ lambda_response' = resp
    /\ h_pc' = "done"

\* classifications.append(result); the loop goes on to the next item
AppendResult(result, log) ==
    /\ classifications' = Append(classifications, result)
    /\ idx' = idx + 1
    /\ h_pc' = "item"
    /\ cur' = NoLocals
    /\ calls' = log

\* a variant of the except clause that makes the failed call once more
\* before it gives the document up
ExceptAndRetry(c, e, log) ==
    IF Cardinality({n \in 1..Len(log) : log[n].doc = idx /\ ~log[n].ok}) < 2
    THEN /\ calls' = log
         /\ UNCHANGED <<cur, h_pc, classifications, idx>>
    ELSE IF Route(event) = "s3_event"
    THEN /\ cur' = [c EXCEPT !.result = ErrorRecord("s3_event", c, e)]
         /\ h_pc' = "save_error"
         /\ calls' = log
         /\ UNCHANGED <<classifications, idx>>
    ELSE AppendResult(ErrorRecord(Route(event), c, e), log)

\* the except clause of the per-document method: the API methods return the
\* error record, classify_document_from_s3_event saves it first
Except(c, e, log) ==
    IF Route(event) = "s3_event"
    THEN /\ cur' = [c EXCEPT !.result = ErrorRecord("s3_event", c, e)]
         /\ h_pc' = "save_error"
         /\ calls' = log
         /\ UNCHANGED <<classifications, idx>>
    ELSE AppendResult(ErrorRecord(Route(event), c, e), log)

\* handler, lines 528-621 (and s3_handler, lines 486-494): route the event,
\* construct the classifier, reject an empty batch
RouteRequest ==
    /\ h_pc = "start"
    /\ \E api_key \in BOOLEAN :
          IF ~api_key                      \* DocumentClassifier() raises ValueError
          THEN /\ Return(Response(500, FALSE, 0, "ValueError"))
               /\ idx' = idx
          ELSE IF Route(event) = "list_files"
          THEN /\ h_pc' = "list"
               /\ UNCHANGED <<idx, lambda_response>>
          ELSE IF Route(event) = "classify_existing" /\ Items(event) = <<>>
          THEN /\ Return(Response(400, FALSE, 0, "No S3 keys provided"))
               /\ idx' = idx
          ELSE IF Route(event) = "classify_files" /\ Items(event) = <<>>
          THEN /\ Return(Response(400, FALSE, 0, "No files provided"))
               /\ idx' = idx
          ELSE /\ h_pc' = "item"
               /\ idx' = 1
               /\ lambda_response' = lambda_response
    /\ UNCHANGED <<event, cur, classifications, calls, parseVars, prepVars>>

\* handler, lines 549-563, with list_s3_files: a failed listing is an empty one
ListFiles ==
    /\ h_pc = "list"
    /\ \E ok \in BOOLEAN, listing \in Listings :
          LET files == IF ok THEN SelectSeq(listing, LAMBDA k : ~EndsWith(k, "/"))
                       ELSE <<>>
          IN  /\ Return(Response(200, TRUE, Len(files), ""))
              /\ calls' = Append(calls, Call("list", 0, ok, NoText))
    /\ UNCHANGED <<event, idx, cur, classifications, parseVars, prepVars>>

\* handler, lines 625-643: the next entry of body["files"] is decoded
DecodeContent ==
    /\ h_pc = "item"
    /\ Route(event) = "classify_files"
    /\ idx <= Len(Items(event))
    /\ LET file_data == Items(event)[idx]
           content == b64decode(file_data.content)
       IN  IF ~content.ok
           THEN AppendResult(InvalidContentRecord(file_data.filename), calls)
           ELSE /\ cur' = Locals(file_data.filename, UploadsBucket, "", content.bytes,
                                 <<>>, NoLocals.result)
                /\ h_pc' = "put"
                /\ UNCHANGED <<idx, classifications, calls>>
    /\ UNCHANGED <<event, lambda_response, parseVars, prepVars>>

\* a variant of the upload that goes on to the get when the put has failed
UploadAndGoOn ==
    /\ h_pc = "put"
    /\ \E ok \in BOOLEAN :
          /\ cur' = [cur EXCEPT !.key = UploadKey(cur.filename)]
          /\ h_pc' = "get"
          /\ calls' = Append(calls, StorageCall("put", idx, ok, UploadKey(cur.filename)))
          /\ UNCHANGED <<idx, classifications>>
    /\ UNCHANGED <<event, lambda_response, parseVars, prepVars>>

\* classify_document with upload_file_to_s3: the put of the uploaded bytes
UploadFileToS3 ==
    /\ h_pc = "put"
    /\ \E ok \in BOOLEAN :
          LET log == Append(calls, StorageCall("put", idx, ok, UploadKey(cur.filename)))
          IN  IF ~ok
              THEN AppendResult(ClassifyDocumentError(cur.filename, "PutError"), log)
              ELSE /\ cur' = [cur EXCEPT !.key = UploadKey(cur.filename)]
                   /\ h_pc' = "get"
                   /\ calls' = log
                   /\ UNCHANGED <<idx, classifications>>
    /\ UNCHANGED <<event, lambda_response, parseVars, prepVars>>

\* s3_handler, lines 495-496: a record of another event source is passed over
SkipRecord ==
    /\ h_pc = "item"
    /\ Route(event) = "s3_event"
    /\ idx <= Len(Items(event))
    /\ Items(event)[idx].eventSource # "aws:s3"
    /\ idx' = idx + 1
    /\ UNCHANGED <<event, h_pc, cur, classifications, calls, lambda_response,
                   parseVars, prepVars>>

\* the document that the get is made for: the uploaded one, the next key of
\* body["s3_keys"], or the next record of the S3 event
Document ==
    CASE Route(event) = "classify_files" -> cur
      [] Route(event) = "classify_existing" ->
             Locals(LastPart(Items(event)[idx], "/"), UploadsBucket, Items(event)[idx],
                    <<>>, <<>>, NoLocals.result)
      [] OTHER ->
             Locals(LastPart(Items(event)[idx].key, "/"), Items(event)[idx].bucket,
                    Items(event)[idx].key, <<>>, <<>>, NoLocals.result)

\* what get_object returns: the bytes uploaded, or what the store holds
Stored == IF Route(event) = "classify_files" THEN {cur.file_content} ELSE StoredContents

\* get_object and response['Body'].read() in classify_document_from_s3,
\* classify_existing_s3_file and classify_document_from_s3_event
GetObject ==
    /\ \/ h_pc = "get"
       \/ /\ h_pc = "item"
          /\ Route(event) = "classify_existing"
          /\ idx <= Len(Items(event))
       \/ /\ h_pc = "item"
          /\ Route(event) = "s3_event"
          /\ idx <= Len(Items(event))
          /\ Items(event)[idx].eventSource = "aws:s3"
    /\ \E ok \in BOOLEAN, file_content \in Stored :
          LET log == Append(calls, StorageCall("get", idx, ok, Document.key))
          IN  IF ~ok
              THEN Except(Document, "GetError", log)
              ELSE /\ cur' = [Document EXCEPT !.file_content = file_content]
                   /\ h_pc' = "prepare"
                   /\ calls' = log
                   /\ UNCHANGED <<idx, classifications>>
    /\ UNCHANGED <<event, lambda_response, parseVars, prepVars>>

\* _build_classification_prompt, _get_content_type and _prepare_gemini_content,
\* as the three per-document methods call them after the get
PrepareContents ==
    /\ h_pc = "prepare"
    /\ \E env \in AdapterEnvs :
          LET out == _prepare_gemini_content(cur.file_content, cur.filename,
                                             _get_content_type(cur.filename),
                                             _build_classification_prompt(cur.filename),
                                             env)
              log == Append(calls, Call("prepare", idx, out.trace.raised = "none", NoText))
          IN  IF out.escaped
              THEN Except(cur, out.trace.raised, log)
              ELSE /\ cur' = [cur EXCEPT !.contents = out.contents]
                   /\ h_pc' = "generate"
                   /\ calls' = log
                   /\ UNCHANGED <<idx, classifications>>
    /\ UNCHANGED <<event, lambda_response, parseVars, prepVars>>

\* the interpreter's record with the branch's metadata: classify_document_from_s3
\* returns it, the other two methods go on to save it
Classified(out, log) ==
    IF out.escaped
    THEN Except(cur, "ParseError", log)
    ELSE IF Route(event) = "classify_files"
    THEN AppendResult(WithMetadata("classify_files", cur, out.value), log)
    ELSE /\ cur' = [cur EXCEPT !.result = WithMetadata(Route(event), cur, out.value)]
         /\ h_pc' = "save"
         /\ calls' = log
         /\ UNCHANGED <<idx, classifications>>

\* model.generate_content(contents), gemini_response.text and
\* _parse_classification_response, then the metadata
GenerateContent ==
    /\ h_pc = "generate"
    /\ \/ Except(cur, "GenerateError", Append(calls, Call("generate", idx, FALSE, NoText)))
       \/ \E text \in ModelTexts :
             Classified(_parse_classification_response(Text(text), cur.filename),
                        Append(calls, Call("generate", idx, TRUE, Text(text))))
    /\ UNCHANGED <<event, lambda_response, parseVars, prepVars>>

\* _save_classification_result for a classified document (lines 116-126 and
\* lines 172-177): the put may fail, the result is returned either way
SaveResult ==
    /\ h_pc = "save"
    /\ \E ok \in BOOLEAN :
          AppendResult(WithResultKey(Route(event), cur.result, SavedKey(cur.filename, ok)),
                       Append(calls, StorageCall("put_result", idx, ok,
                                                 ResultKey(cur.filename))))
    /\ UNCHANGED <<event, lambda_response, parseVars, prepVars>>

\* classify_document_from_s3_event, lines 189-191: the error result is saved too
SaveErrorResult ==
    /\ h_pc = "save_error"
    /\ \E ok \in BOOLEAN :
          AppendResult(cur.result,
                       Append(calls, StorageCall("put_result", idx, ok,
                                                 ResultKey(cur.filename))))
    /\ UNCHANGED <<event, lambda_response, parseVars, prepVars>>

\* the loop is over: the success response with the results (lines 506-513,
\* 590-603 and 646-664)
Respond ==
    /\ h_pc = "item"
    /\ idx > Len(Items(event))
    /\ Return(Response(200, TRUE,
                       IF Route(event) = "s3_event" THEN Len(classifications)
                       ELSE Len(Items(event)), ""))
    /\ UNCHANGED <<event, idx, cur, classifications, calls, parseVars, prepVars>>

Next ==
    \/ RouteRequest
    \/ ListFiles
    \/ DecodeContent
    \/ UploadFileToS3
    \/ SkipRecord
    \/ GetObject
    \/ PrepareContents
    \/ GenerateContent
    \/ SaveResult
    \/ SaveErrorResult
    \/ Respond

Spec == Init /\ [][Next]_vars

(***************************************************************************)
(* Properties of the interpreter (SpecParse).                              *)
(***************************************************************************)
CanonicalCategories == {"Loss Run", "ACORD form", "Supplemental forms", "Mod sheet"}

FiveLabels == CanonicalCategories \cup {"Unknown"}

Quoted(s) == "\"" \o s \o "\""

BraceFree(s) == ~Contains(s, "{") /\ ~Contains(s, "}")

\* the texts that are the object {"classification": c}, in whitespace or brace-free prose
WellFormedResponses(c) ==
    {Text(pre \o ObjectText(Quoted("classification"), Quoted(c), t) \o post) :
        pre \in {p \in Prefixes : BraceFree(p)},
        t \in {"", " "},
        post \in {q \in Suffixes : BraceFree(q)}}

\* C2: for each of the four canonical categories c, a raw text that is the
\* well-formed JSON object {"classification": c}, optionally surrounded by
\* whitespace or brace-free prose, is interpreted as exactly c.
C2_WellFormedJsonGivesCategory ==
    parse_pc # "call" =>
        \A c \in CanonicalCategories :
            response_text \in WellFormedResponses(c) =>
                /\ parse_pc = "returned"
                /\ parse_result.classification = c

C2_Witness ==
    /\ parse_pc = "returned"
    /\ response_text = Text("Sure: {\"classification\": \"Mod sheet\"} form")
    /\ parse_result.classification = "Mod sheet"

\* labels that are not character for character one of the four categories
InvalidLabels == {"loss run", "Invoice", "", "Unknown"}

\* the objects whose "classification" field holds an invalid label, and the
\* objects that have no "classification" field at all
InvalidLabelResponses ==
    {Text(pre \o ObjectText(Quoted("classification"), Quoted(v), t) \o post) :
        pre \in {p \in Prefixes : BraceFree(p)},
        v \in InvalidLabels,
        t \in {"", " "},
        post \in {q \in Suffixes : BraceFree(q)}}
    \cup
    {Text(ObjectText(k, Quoted(c), "")) :
        k \in {Quoted("Classification"), Quoted("label")}, c \in CanonicalCategories}

\* C3: every candidate label (the JSON "classification" field, or the keyword
\* scan's label) that after trimming is not exactly one of the four allowed
\* strings - the empty string, a missing field, another letter case, an
\* invented category - is returned as "Unknown".
C3_InvalidLabelGivesUnknown ==
    parse_pc = "returned" =>
        /\ (parse_trace.raised = "none" /\ parse_trace.candidate \notin CanonicalCategories)
               => parse_result.classification = "Unknown"
        /\ response_text \in InvalidLabelResponses
               => parse_result.classification = "Unknown"

C3_Witness ==
    /\ parse_pc = "returned"
    /\ response_text = Text("{\"classification\": \"loss run\"}")
    /\ parse_trace.raised = "none"
    /\ parse_trace.candidate = "loss run"
    /\ parse_result.classification = "Unknown"

\* the keyword groups of the fallback scan, in priority order
KeywordGroups ==
    << [words |-> {"loss run", "loss", "claims", "history"}, label |-> "Loss Run"],
       [words |-> {"acord", "form"},                         label |-> "ACORD form"],
       [words |-> {"supplemental", "endorsement", "rider"},  label |-> "Supplemental forms"],
       [words |-> {"mod", "modification", "rating"},         label |-> "Mod sheet"] >>

GroupOccurs(g, lowered) == \E w \in KeywordGroups[g].words : Contains(lowered, w)

\* the label of the first group that has a keyword in the lowercased text
FirstGroupLabel(lowered) ==
    IF \E g \in 1..Len(KeywordGroups) : GroupOccurs(g, lowered)
    THEN KeywordGroups[CHOOSE g \in 1..Len(KeywordGroups) :
                           /\ GroupOccurs(g, lowered)
                           /\ \A h \in 1..(g - 1) : ~GroupOccurs(h, lowered)].label
    ELSE "Unknown"

\* the raw text holds no object that parses with a "classification" field
NoParseableObject(response) ==
    LET text == Strip(response.text)
        at == LocateJson(text)
        loaded == JsonLoads(Slice(text, at.start_idx, at.end_idx))
    IN  \/ at.start_idx = -1
        \/ at.end_idx = 0
        \/ ~loaded.ok
        \/ loaded.t # "dict"
        \/ ~loaded.has

\* C4: whenever the raw text yields no parseable object - no "{"/"}" pair, or
\* the substring from the first "{" to the last "}" is not an object with a
\* "classification" field - the label is the keyword scan's label for the
\* lowercased raw text.
C4_NoObjectFallsBackToKeywordScan ==
    (parse_pc = "returned" /\ response_text.present /\ NoParseableObject(response_text))
        => parse_result.classification = FirstGroupLabel(Lower(response_text.text))

\* C5: for a brace-free raw text the label is that of the first keyword group,
\* in the order (a) loss run/loss/claims/history, (b) acord/form,
\* (c) supplemental/endorsement/rider, (d) mod/modification/rating, that has a
\* keyword in the lowercased text, and "Unknown" when none has; so "form" with
\* "mod" and no group-(a) keyword gives "ACORD form", and the sentence
\* "I think this is a Loss Run document, yes." gives "Loss Run".
C5_KeywordScanPriority ==
    (parse_pc # "call" /\ response_text.present /\ BraceFree(response_text.text)) =>
        /\ parse_pc = "returned"
        /\ parse_result.classification = FirstGroupLabel(Lower(response_text.text))
        /\ response_text.text \in {"form mod", "mod form"}
               => parse_result.classification = "ACORD form"
        /\ response_text.text = "I think this is a Loss Run document, yes."
               => parse_result.classification = "Loss Run"
        /\ response_text.text \in {"", "xyz", "xyz xyz"}
               => parse_result.classification = "Unknown"

C5_Witness ==
    /\ parse_pc = "returned"
    /\ response_text = Text("mod form")
    /\ parse_trace.branch = "fallback"
    /\ parse_result.classification = "ACORD form"

\* C6: the interpreter never raises to its caller: for every input it returns
\* a record for the given filename, and whenever a step of parsing failed the
\* record's classification is "Unknown".
C6_InterpreterNeverRaises ==
    parse_pc # "call" =>
        /\ parse_pc = "returned"
        /\ parse_result.filename = parse_filename
        /\ parse_result.classification \in FiveLabels
        /\ parse_trace.raised # "none" => parse_result.classification = "Unknown"

C6_Witness ==
    /\ parse_pc = "returned"
    /\ response_text = Text("{\"classification\": 7}")
    /\ parse_trace.raised = "AttributeError"
    /\ parse_result.classification = "Unknown"

\* C7: round trip between prompt and interpreter: the response format that the
\* prompt documents, with one of the four categories c in the placeholder's
\* place, is interpreted as c.
C7_PromptFormatRoundTrip ==
    parse_pc = "returned" =>
        \A c \in CanonicalCategories :
            response_text = Text(ExampleOutput(_build_classification_prompt(parse_filename), c))
                => parse_result.classification = c

(***************************************************************************)
(* Properties of the adapter (SpecPrep).                                   *)
(***************************************************************************)
EmergencyPayload(filename, exc) ==
    << [kind |-> "text", role |-> "prompt", name |-> filename, body |-> <<>>, msg |-> ""],
       [kind |-> "text", role |-> "error", name |-> filename, body |-> <<>>, msg |-> exc] >>

\* C8: for every call whose declared media type is not application/pdf, every
\* part of the returned payload is text: no raw-bytes part, no file handle.
C8_NonPdfPayloadIsText ==
    (prep_pc = "returned" /\ _get_content_type(prep_filename) # "application/pdf") =>
        \A k \in 1..Len(contents) : contents[k].kind = "text"

\* C9 as stated: the adapter never raises, and whenever an exception occurred
\* inside adaptation the payload is exactly the two-part emergency payload
\* [prompt, "Error processing file <filename>: <message>"].
C9_AnyExceptionGivesEmergencyPayload ==
    prep_pc # "call" =>
        /\ prep_pc = "returned"
        /\ Len(contents) >= 1
        /\ prep_trace.raised # "none"
               => contents = EmergencyPayload(prep_filename, prep_trace.raised)

\* the exceptions a branch handles itself, by degrading to [prompt, raw bytes]
HandledByBranch(trace) ==
    \/ trace.branch = "excel" /\ trace.raised = "ImportError"
    \/ trace.branch = "text" /\ trace.raised = "UnicodeDecodeError"

\* C9 as amended: the adapter never raises and always returns a payload; and
\* whenever an exception occurred inside adaptation, other than the
\* ImportError of the spreadsheet branch and the UnicodeDecodeError of the
\* .txt/.doc branch (which those branches handle themselves), the payload is
\* exactly the two-part emergency payload.
C9_UnhandledExceptionGivesEmergencyPayload ==
    prep_pc # "call" =>
        /\ prep_pc = "returned"
        /\ Len(contents) >= 1
        /\ (prep_trace.raised # "none" /\ ~HandledByBranch(prep_trace))
               => contents = EmergencyPayload(prep_filename, prep_trace.raised)

C9_Witness ==
    /\ prep_pc = "returned"
    /\ prep_filename = "book.xlsx"
    /\ prep_trace.raised = "ValueError"
    /\ contents = EmergencyPayload("book.xlsx", "ValueError")

(***************************************************************************)
(* Properties of the handlers (Spec).                                      *)
(***************************************************************************)
HasValidLabel(result) ==
    /\ "classification" \in DOMAIN result
    /\ result.classification \in FiveLabels

\* C1: every result record produced for a document, on every path (the
\* records appended to the batch's results, and the record that is about to
\* be saved), has a classification field whose value is one of the four
\* categories or Unknown, whatever the model text and whichever collaborator
\* call failed.
C1_ClassificationIsOneOfFiveLabels ==
    /\ \A k \in 1..Len(classifications) : HasValidLabel(classifications[k])
    /\ h_pc \in {"save", "save_error"} => HasValidLabel(cur.result)

\* a finished batch of two with a category for the first document and an
\* error record for the second
C1_Witness ==
    /\ h_pc = "done"
    /\ Len(classifications) = 2
    /\ classifications[1].classification = "Mod sheet"
    /\ classifications[2].classification = "Unknown"
    /\ "error" \in DOMAIN classifications[2]

\* the handler has run the loop of a classify_files or classify_existing batch
BatchDone ==
    /\ h_pc = "done"
    /\ Route(event) \in {"classify_files", "classify_existing"}
    /\ idx >= 1

\* the filename that the k-th entry of the batch names
InputFilename(k) ==
    IF Route(event) = "classify_files" THEN Items(event)[k].filename
    ELSE LastPart(Items(event)[k], "/")

\* the step op was made for document k and failed
Failed(k, op) == \E n \in 1..Len(calls) : calls[n].doc = k /\ calls[n].op = op /\ ~calls[n].ok

\* the text that the model returned for document k
Returned(k, text) ==
    \E n \in 1..Len(calls) :
        calls[n].doc = k /\ calls[n].op = "generate" /\ calls[n].ok /\ calls[n].text = Text(text)

\* the label that each model text stands for
LabelOfText ==
    [text \in ModelTexts |->
        CASE text = "{\"classification\": \"Loss Run\"}" -> "Loss Run"
          [] text = "a mod rating sheet" -> "Mod sheet"
          [] OTHER -> "Unknown"]

UnknownWithError(result) ==
    /\ result.classification = "Unknown"
    /\ "error" \in DOMAIN result

\* the response is a success response with one result per entry, in input order
OneResultPerEntry ==
    /\ lambda_response.statusCode = 200
    /\ lambda_response.success
    /\ lambda_response.total_files = Len(Items(event))
    /\ Len(classifications) = Len(Items(event))
    /\ \A k \in 1..Len(classifications) : classifications[k].filename = InputFilename(k)

\* C10 as stated: after a batch, the response is a success response with one
\* result per document in input order, and a document for which anything
\* failed (adaptation, the model call or a storage call) has the label
\* Unknown and an error detail.
C10_AnyFailureGivesUnknownWithError ==
    BatchDone =>
        /\ OneResultPerEntry
        /\ \A k \in 1..Len(classifications) :
              (\E op \in {"put", "get", "prepare", "generate", "put_result"} : Failed(k, op))
                  => UnknownWithError(classifications[k])

\* C10 as amended: after a batch, the response is a success response with one
\* result per document in input order; a document whose upload put, get or
\* model call failed has the label Unknown and an error detail; a document
\* for which the model returned a text has the label the interpreter reads
\* from that text and no error detail, also when its adaptation or the save
\* of its result failed; every result depends on its own document only.
C10_CollaboratorFailureGivesUnknownWithError ==
    BatchDone =>
        /\ OneResultPerEntry
        /\ \A k \in 1..Len(classifications) :
              /\ (\E op \in {"put", "get", "generate"} : Failed(k, op))
                     => UnknownWithError(classifications[k])
              /\ \A text \in ModelTexts :
                     Returned(k, text) =>
                         /\ classifications[k].classification = LabelOfText[text]
                         /\ "error" \notin DOMAIN classifications[k]

\* a finished batch of two whose first document failed at the model call and
\* whose second document, with a failed adaptation, was classified
C10_Witness ==
    /\ BatchDone
    /\ Len(classifications) = 2
    /\ Failed(1, "generate")
    /\ UnknownWithError(classifications[1])
    /\ Failed(2, "prepare")
    /\ classifications[2].classification = "Loss Run"

\* the contents of FileEntries that base64.b64decode rejects
UndecodableContents == {"QQ"}

\* a collaborator call or adaptation step was made for document k
Attempted(k) == \E n \in 1..Len(calls) : calls[n].doc = k

\* C11: in the classify_files action an entry whose content is not base64 is
\* reported at its own position as a result with the label Unknown and an
\* error field, no storage call and no model call is ever made for it, and
\* the entries after it are still processed: the finished batch has one
\* result per entry and every decodable entry was worked on.
C11_UndecodableEntryReportedAlone ==
    Route(event) = "classify_files" =>
        /\ \A k \in 1..Len(Items(event)) :
              Items(event)[k].content \in UndecodableContents =>
                  /\ ~Attempted(k)
                  /\ k <= Len(classifications) =>
                         /\ UnknownWithError(classifications[k])
                         /\ classifications[k].filename = Items(event)[k].filename
        /\ (h_pc = "done" /\ idx >= 1) =>
              /\ Len(classifications) = Len(Items(event))
              /\ \A k \in 1..Len(Items(event)) :
                    Items(event)[k].content \notin UndecodableContents => Attempted(k)

\* a finished batch whose first entry is not base64 and whose second entry
\* went through to the model
C11_Witness ==
    /\ h_pc = "done"
    /\ Route(event) = "classify_files"
    /\ Len(classifications) = 2
    /\ Items(event)[1].content \in UndecodableContents
    /\ classifications[1].error = "Invalid file content"
    /\ \E n \in 1..Len(calls) : calls[n].doc = 2 /\ calls[n].op = "generate" /\ calls[n].ok

(***************************************************************************)
(* Further properties of the adapter (SpecPrep).                           *)
(***************************************************************************)
\* the prompt together with the raw bytes as an opaque part
DegradedPayload(filename, file_content) ==
    << [kind |-> "text", role |-> "prompt", name |-> filename, body |-> <<>>, msg |-> ""],
       [kind |-> "bytes", role |-> "raw", name |-> "", body |-> file_content, msg |-> ""] >>

\* the call was for a declared spreadsheet type and the table parse failed
SpreadsheetParseFailed ==
    /\ prep_pc # "call"
    /\ prep_filename \in {"book.xlsx", "old.xls"}
    /\ prep_trace.raised # "none"

\* C12 as stated: for a spreadsheet whose table parse fails, for whichever
\* reason, the adapter returns the prompt with the raw bytes as an opaque part.
C12_SpreadsheetFailureDegradesToBytes ==
    SpreadsheetParseFailed =>
        /\ prep_pc = "returned"
        /\ contents = DegradedPayload(prep_filename, prep_content)

\* C12 as amended: for a spreadsheet whose table parse fails the adapter
\* returns a payload without raising; the payload is the prompt with the raw
\* bytes when the parsing capability is missing (ImportError), and the
\* emergency payload of prompt and error text when the parse fails for
\* another reason (a malformed file).
C12_MissingCapabilityDegradesToBytes ==
    SpreadsheetParseFailed =>
        /\ prep_pc = "returned"
        /\ prep_trace.raised = "ImportError"
               => contents = DegradedPayload(prep_filename, prep_content)
        /\ prep_trace.raised # "ImportError"
               => contents = EmergencyPayload(prep_filename, prep_trace.raised)

\* a legacy workbook, pandas missing: the prompt with the raw bytes is returned
C12_Witness ==
    /\ prep_pc = "returned"
    /\ prep_filename = "old.xls"
    /\ prep_content = <<65>>
    /\ prep_trace.raised = "ImportError"
    /\ contents = DegradedPayload("old.xls", <<65>>)

\* the call was made for a file of one of the names, with bytes that are not
\* valid UTF-8
UndecodableCall(names) ==
    /\ prep_pc # "call"
    /\ prep_filename \in names
    /\ ~Utf8Decode(prep_content).ok

\* C15: for a declared CSV type whose bytes are not valid UTF-8 the decoding
\* failure is a hard error of the branch: the payload returned is the prompt
\* and the error text only, no part of it carries the raw bytes or a partly
\* decoded text; for a .txt or .doc file with undecodable bytes the payload
\* is the prompt together with the raw bytes.
C15_CsvDecodeFailureIsHardTextFallsBackToBytes ==
    /\ UndecodableCall({"data.csv"}) =>
          /\ prep_pc = "returned"
          /\ contents = EmergencyPayload(prep_filename, "UnicodeDecodeError")
          /\ \A k \in 1..Len(contents) :
                contents[k].kind = "text" /\ contents[k].body = <<>>
    /\ UndecodableCall({"notes.txt", "memo.doc"}) =>
          /\ prep_pc = "returned"
          /\ contents = DegradedPayload(prep_filename, prep_content)

\* a CSV file whose first byte decodes and whose second byte does not
C15_Witness ==
    /\ prep_pc = "returned"
    /\ prep_filename = "data.csv"
    /\ prep_content = <<65, 255>>
    /\ contents = EmergencyPayload("data.csv", "UnicodeDecodeError")

\* a text file that ends inside a two-byte sequence: the raw bytes are sent
C15_TextWitness ==
    /\ prep_pc = "returned"
    /\ prep_filename = "notes.txt"
    /\ prep_content = <<65, 195>>
    /\ contents = DegradedPayload("notes.txt", <<65, 195>>)

(***************************************************************************)
(* Further properties of the handler (Spec).                               *)
(***************************************************************************)
\* the operations on the collaborators that are made for one document
DocumentOps == {"put", "get", "generate", "put_result"}

\* the places of the log where operation op was attempted for document k
Attempts(k, op) == {n \in 1..Len(calls) : calls[n].doc = k /\ calls[n].op = op}

\* C13: within one invocation every collaborator operation (upload put, get,
\* model generate, result-save put) is attempted at most once for each
\* document of the batch, so a failed attempt is never followed by a second
\* attempt of the same operation for that document.
C13_EachOperationAtMostOncePerDocument ==
    \A k \in 1..MaxBatch, op \in DocumentOps :
        /\ Cardinality(Attempts(k, op)) <= 1
        /\ \A n \in Attempts(k, op) :
              ~calls[n].ok => \A m \in (n + 1)..Len(calls) :
                                 ~(calls[m].doc = k /\ calls[m].op = op)

\* a batch of two is answered after the first document's get failed and the
\* second document went through its get and its model call
C13_Witness ==
    /\ h_pc = "done"
    /\ Len(Items(event)) = 2
    /\ \E n \in Attempts(1, "get") : ~calls[n].ok
    /\ Attempts(1, "generate") = {}
    /\ \E n \in Attempts(2, "generate") : calls[n].ok

\* the list request was answered after list_objects_v2 had failed
ListingFailed ==
    /\ h_pc = "done"
    /\ Route(event) = "list_files"
    /\ \E n \in 1..Len(calls) : calls[n].op = "list" /\ ~calls[n].ok

\* C14: a failure of the object-store list call during the list_files action
\* reaches the caller as an error: the response is not a success response.
C14_ListFailureIsNotASuccess ==
    ListingFailed => ~(lambda_response.statusCode = 200 /\ lambda_response.success)

\* the filename of the k-th document of the batch, on every route
DocFilename(k) ==
    IF Route(event) = "s3_event" THEN LastPart(Items(event)[k].key, "/")
    ELSE InputFilename(k)

\* the place of the k-th document's result among the results: s3_handler
\* makes no result for a record of another event source
ResultIndex(k) ==
    IF Route(event) = "s3_event"
    THEN Cardinality({j \in 1..k : Items(event)[j].eventSource = "aws:s3"})
    ELSE k

\* the filenames that the documents of the events have
DocFilenames ==
    {f.filename : f \in FileEntries}
    \cup {LastPart(key, "/") : key \in S3Keys}
    \cup {LastPart(record.key, "/") : record \in S3Records}

\* what the interpreter makes of each model text for each filename
Interpreted ==
    [text \in ModelTexts, filename \in DocFilenames |->
        _parse_classification_response(Text(text), filename)]

SameLabelAndFilename(result, computed) ==
    /\ result.classification = computed.classification
    /\ result.filename = computed.filename

\* the record of document k, wherever it is now (about to be saved, or among
\* the results), agrees with the record that the interpreter computed
KeepsComputed(k, computed) ==
    /\ (h_pc = "save" /\ idx = k) => SameLabelAndFilename(cur.result, computed)
    /\ (idx > k /\ ResultIndex(k) <= Len(classifications))
           => SameLabelAndFilename(classifications[ResultIndex(k)], computed)

\* C16: once _parse_classification_response has computed a document's label,
\* the steps that follow on the record (source bucket and key, timestamp,
\* file size, processing method, s3_key and s3_url, result_key, a failed or
\* successful save) leave its classification and filename fields as the
\* interpreter computed them, up to the results returned to the caller.
C16_LabelAndFilenameAreFinal ==
    \A k \in 1..Len(Items(event)), text \in ModelTexts :
        (Returned(k, text) /\ ~Interpreted[text, DocFilename(k)].escaped)
            => KeepsComputed(k, Interpreted[text, DocFilename(k)].value)

\* an existing file was classified from a prose answer, its save failed, and
\* the record returned has the metadata and the interpreter's label
C16_Witness ==
    /\ h_pc = "done"
    /\ Route(event) = "classify_existing"
    /\ Len(classifications) >= 1
    /\ Returned(1, "a mod rating sheet")
    /\ Failed(1, "put_result")
    /\ classifications[1].classification = "Mod sheet"
    /\ classifications[1].filename = "a.pdf"
    /\ classifications[1].processing_method = "existing_file_selection"
    /\ "result_key" \notin DOMAIN classifications[1]

\* call n of the log was made for document k and is operation op
IsCall(n, k, op) == calls[n].doc = k /\ calls[n].op = op

\* before call n, operation op was made for document k, succeeded, and had
\* the Key argument key
SucceededBefore(n, k, op, key) ==
    \E m \in 1..(n - 1) : IsCall(m, k, op) /\ calls[m].ok /\ calls[m].key = key

\* C17: for an uploaded document the calls are made in the order upload put,
\* get of the same key, model generate: a get is made only after the
\* document's put succeeded and with the put's key, the model is called only
\* after the get (and so the put) succeeded, and when the put fails neither
\* the get nor the model call is made and the result is Unknown with an
\* error field.
C17_UploadThenGetThenGenerate ==
    Route(event) = "classify_files" =>
        \A k \in 1..Len(Items(event)) :
            /\ \A n \in 1..Len(calls) :
                  /\ IsCall(n, k, "get") =>
                         SucceededBefore(n, k, "put", calls[n].key)
                  /\ IsCall(n, k, "generate") =>
                         \E g \in 1..(n - 1) :
                             /\ IsCall(g, k, "get")
                             /\ calls[g].ok
                             /\ SucceededBefore(g, k, "put", calls[g].key)
            /\ Failed(k, "put") =>
                  /\ Attempts(k, "get") = {}
                  /\ Attempts(k, "generate") = {}
                  /\ idx > k
                  /\ k <= Len(classifications)
                  /\ UnknownWithError(classifications[k])
                  /\ classifications[k].filename = Items(event)[k].filename

\* a batch of two uploads: the first document's put failed, the second went
\* through put, get and the model call, in that order
C17_Witness ==
    /\ h_pc = "done"
    /\ Route(event) = "classify_files"
    /\ Len(classifications) = 2
    /\ Failed(1, "put")
    /\ classifications[1].error = "PutError"
    /\ \E p, g, m \in 1..Len(calls) :
          /\ p < g /\ g < m
          /\ IsCall(p, 2, "put") /\ calls[p].ok
          /\ IsCall(g, 2, "get") /\ calls[g].ok /\ calls[g].key = calls[p].key
          /\ IsCall(m, 2, "generate") /\ calls[m].ok

\* the records of the event that s3_handler processes
IsS3Record(k) == Items(event)[k].eventSource = "aws:s3"

S3RecordCount == Cardinality({k \in 1..Len(Items(event)) : IsS3Record(k)})

\* the loop of s3_handler is past record k
Processed(k) == idx > k

\* C18: on the S3-event path exactly one result-save put is attempted for
\* every record whose eventSource is aws:s3, whether its classification
\* succeeded or failed; a record of another eventSource gets no collaborator
\* call and no result; a failing save does not raise and leaves the label
\* that was computed, so that the response is the success response whose
\* processed_files is the number of aws:s3 records.
C18_OneSavePerS3Record ==
    Route(event) = "s3_event" =>
        /\ \A k \in 1..Len(Items(event)) :
              /\ ~IsS3Record(k) => ~Attempted(k)
              /\ (IsS3Record(k) /\ Processed(k)) =>
                    /\ Cardinality(Attempts(k, "put_result")) = 1
                    /\ ResultIndex(k) <= Len(classifications)
                    /\ classifications[ResultIndex(k)].filename = DocFilename(k)
                    /\ \A text \in ModelTexts :
                          Returned(k, text) =>
                              classifications[ResultIndex(k)].classification
                                  = LabelOfText[text]
                    /\ (Failed(k, "get") \/ Failed(k, "generate")) =>
                          UnknownWithError(classifications[ResultIndex(k)])
        /\ Len(classifications) = Cardinality({k \in 1..Len(Items(event)) :
                                                  IsS3Record(k) /\ Processed(k)})
        /\ (h_pc = "done" /\ idx >= 1) =>
              /\ lambda_response.statusCode = 200
              /\ lambda_response.success
              /\ lambda_response.total_files = S3RecordCount
              /\ Len(classifications) = S3RecordCount

\* an event of an aws:s3 record and a record of another source: the first was
\* classified as a loss run, its save failed, the label is still there, and
\* one file is reported as processed
C18_Witness ==
    /\ h_pc = "done"
    /\ Route(event) = "s3_event"
    /\ Len(Items(event)) = 2
    /\ ~IsS3Record(2)
    /\ Returned(1, "{\"classification\": \"Loss Run\"}")
    /\ Failed(1, "put_result")
    /\ classifications[1].classification = "Loss Run"
    /\ classifications[1].result_key = "None"
    /\ lambda_response.total_files = 1

\* an aws:s3 record whose get failed: the error record was saved once
C18_ErrorSavedWitness ==
    /\ h_pc = "done"
    /\ Route(event) = "s3_event"
    /\ Failed(1, "get")
    /\ Cardinality(Attempts(1, "put_result")) = 1
    /\ UnknownWithError(classifications[1])

====
